---- MODULE Spec2Model ----
(***************************************************************************)
(* Model of src/eve.py: the EVE application object (argument parsing,      *)
(* working-directory and logger bootstrap, mapper and detector loading,    *)
(* run(), process exit).  Several invocations of the program (Runs) share  *)
(* one filesystem and one wall clock with a resolution of one second.      *)
(***************************************************************************)
EXTENDS Integers, Sequences, FiniteSets, TLC

\* ---- bounds of the model ------------------------------------------------
MaxReads == 3
MaxDetectors == 2
MaxClock == 1

\* ---- program constants --------------------------------------------------
\* parse_args: more than this many input read files is an error
MaxInputReads == 2

\* two invocations of the program, possibly overlapping in time
Runs == {"run1", "run2"}
None == "None"

\* names a user may put in --variant-detectors
DetectorNames == {"mpileup", "bogus"}
WorkingDirectories == {"output/", "scratch/"}

\* the only name the dispatch of __init__ knows
KnownDetector == "mpileup"

\* the detector names the help text of --variant-detectors offers by default
RecognizedDetectors == {"gatk", "mpileup", "varscan"}

\* a create_working_directories that forgets the vcf subdirectory
SubdirsMappedOnly == <<"mapped">>

\* subdirectories made by create_working_directories, in order
Subdirs == <<"mapped", "vcf">>

SeqsUpTo(S, n) == UNION {[1..k -> S] : k \in 1..n}

\* the part of the command line parse_args validates: -h given or not,
\* positional reads, whether the first one ends in .bam, -f/-g given or not,
\* whether the GFF path is a regular file
Argv ==
    [help : BOOLEAN,
     nreads : 0..MaxReads,
     firstIsBam : BOOLEAN,
     required : BOOLEAN,
     gffIsFile : BOOLEAN]

\* the options the rest of the program reads: -d and -w (args.output,
\* args.fasta, args.mapper and args.input_reads are read nowhere on a path
\* the program can take)
Options ==
    [variant_detectors : SeqsUpTo(DetectorNames, MaxDetectors),
     working_directory : WorkingDirectories]

\* pc[r] is the statement run r is at; when the process has ended
\* (exitStatus[r] >= 0) it is the statement that raised, or "exited"
VARIABLES pc, args, err, exitStatus, working_dir, subdir, logger, mapper,
          detectors, idx, dirs, files, clock

vars == <<pc, args, err, exitStatus, working_dir, subdir, logger, mapper,
          detectors, idx, dirs, files, clock>>

NoArgs == [variant_detectors |-> <<>>]
NoDir == <<>>

Init ==
    /\ pc = [r \in Runs |-> "start"]
    /\ args = [r \in Runs |-> NoArgs]
    /\ err = [r \in Runs |-> None]
    /\ exitStatus = [r \in Runs |-> -1]
    /\ working_dir = [r \in Runs |-> NoDir]
    /\ subdir = [r \in Runs |-> 0]
    /\ logger = [r \in Runs |-> FALSE]
    /\ mapper = [r \in Runs |-> None]
    /\ detectors = [r \in Runs |-> <<>>]
    /\ idx = [r \in Runs |-> 0]
    /\ dirs = {}
    /\ files = {}
    /\ clock = 0

\* the process of run r has not ended
Running(r) == exitStatus[r] = -1

\* an exception that nothing catches ends the process where it is raised
Raise(r, e, status) ==
    /\ err' = [err EXCEPT ![r] = e]
    /\ exitStatus' = [exitStatus EXCEPT ![r] = status]
    /\ UNCHANGED pc

\* the outcome of parse_args on a command line: argparse acts on -h when it
\* meets it (prints the help, SystemExit(0)), reports missing arguments at
\* the end of parsing (SystemExit(2)); then the validation of lines 185-192
ParseOutcome(a) ==
    IF a.help THEN "Help"
    ELSE IF a.nreads = 0 \/ ~a.required THEN "SystemExit"
    ELSE IF a.nreads > MaxInputReads THEN "IOError"
    ELSE IF ~a.gffIsFile THEN "IOError"
    ELSE IF a.nreads = 1 /\ a.firstIsBam THEN "AttributeError"
    ELSE None

\* parse_args: argparse, then the validation; the Namespace it returns holds
\* the options and never an attribute bam
ParseArgs(r) ==
    /\ pc[r] = "start"
    /\ Running(r)
    /\ \E a \in Argv :
         LET o == ParseOutcome(a) IN
         IF o = None
         THEN /\ \E opts \in Options : args' = [args EXCEPT ![r] = opts]
              /\ pc' = [pc EXCEPT ![r] = "parsed"]
              /\ UNCHANGED <<err, exitStatus>>
         ELSE /\ IF o = "Help" THEN Raise(r, "SystemExit", 0)
                 ELSE IF o = "SystemExit" THEN Raise(r, o, 2)
                 ELSE Raise(r, o, 1)
              /\ UNCHANGED args
    /\ UNCHANGED <<working_dir, subdir, logger, mapper, detectors, idx,
                   dirs, files, clock>>

\* create_working_directories up to the head of its loop: the clock is read
\* and self.working_dir is set
CreateWorkingDirectories(r) ==
    /\ pc[r] = "parsed"
    /\ Running(r)
    /\ working_dir' = [working_dir EXCEPT ![r] =
                          <<args[r].working_directory, clock>>]
    /\ subdir' = [subdir EXCEPT ![r] = 1]
    /\ pc' = [pc EXCEPT ![r] = "isdir"]
    /\ UNCHANGED <<args, err, exitStatus, logger, mapper, detectors, idx,
                   dirs, files, clock>>

\* the path of the subdirectory the loop is at
SubdirPath(r) == Append(working_dir[r], Subdirs[subdir[r]])

\* the loop goes to its next subdirectory, or the function returns
NextSubdir(r) ==
    IF subdir[r] = Len(Subdirs)
    THEN /\ pc' = [pc EXCEPT ![r] = "dirs"]
         /\ UNCHANGED subdir
    ELSE /\ pc' = [pc EXCEPT ![r] = "isdir"]
         /\ subdir' = [subdir EXCEPT ![r] = @ + 1]

\* if not os.path.isdir(path)
IsDir(r) ==
    /\ pc[r] = "isdir"
    /\ Running(r)
    /\ IF SubdirPath(r) \in dirs
       THEN NextSubdir(r)
       ELSE /\ pc' = [pc EXCEPT ![r] = "makedirs"]
            /\ UNCHANGED subdir
    /\ UNCHANGED <<args, err, exitStatus, working_dir, logger, mapper,
                   detectors, idx, dirs, files, clock>>

\* os.makedirs(path), first half: the missing parents are made (an existing
\* parent is left alone); the system may refuse
MakedirsParents(r) ==
    /\ pc[r] = "makedirs"
    /\ Running(r)
    /\ \E ok \in BOOLEAN :
         IF ok \/ working_dir[r] \in dirs
         THEN /\ dirs' = dirs \cup {working_dir[r]}
              /\ pc' = [pc EXCEPT ![r] = "mkdir"]
              /\ UNCHANGED <<err, exitStatus>>
         ELSE /\ Raise(r, "OSError", 1)
              /\ UNCHANGED dirs
    /\ UNCHANGED <<args, working_dir, subdir, logger, mapper, detectors, idx,
                   files, clock>>

\* os.makedirs(path), second half: mkdir of the leaf, which fails when the
\* leaf exists by now (FileExistsError) or when the system refuses
MakedirsLeaf(r) ==
    /\ pc[r] = "mkdir"
    /\ Running(r)
    /\ \E ok \in BOOLEAN :
         IF ok /\ SubdirPath(r) \notin dirs
         THEN /\ dirs' = dirs \cup {SubdirPath(r)}
              /\ NextSubdir(r)
              /\ UNCHANGED <<err, exitStatus>>
         ELSE /\ Raise(r, "OSError", 1)
              /\ UNCHANGED <<dirs, subdir>>
    /\ UNCHANGED <<args, working_dir, logger, mapper, detectors, idx,
                   files, clock>>

\* logging.basicConfig opens eve.log in the working directory, which the
\* system may refuse
InitializeLogger(r) ==
    /\ pc[r] = "dirs"
    /\ Running(r)
    /\ \E ok \in BOOLEAN :
         IF ok
         THEN /\ logger' = [logger EXCEPT ![r] = TRUE]
              /\ files' = files \cup {Append(working_dir[r], "eve.log")}
              /\ pc' = [pc EXCEPT ![r] = "logger"]
              /\ UNCHANGED <<err, exitStatus>>
         ELSE /\ Raise(r, "OSError", 1)
              /\ UNCHANGED <<logger, files>>
    /\ UNCHANGED <<args, working_dir, subdir, mapper, detectors, idx, dirs,
                   clock>>

\* platform.linux_distribution() is absent from some interpreters
LogSystemInfo(r) ==
    /\ pc[r] = "logger"
    /\ Running(r)
    /\ \E ok \in BOOLEAN :
         IF ok
         THEN /\ pc' = [pc EXCEPT ![r] = "sysinfo"]
              /\ UNCHANGED <<err, exitStatus>>
         ELSE Raise(r, "AttributeError", 1)
    /\ UNCHANGED <<args, working_dir, subdir, logger, mapper, detectors, idx,
                   dirs, files, clock>>

HasBam(r) == "bam" \in DOMAIN args[r]

LoadMapper(r) ==
    /\ pc[r] = "sysinfo"
    /\ Running(r)
    /\ mapper' = [mapper EXCEPT ![r] = IF HasBam(r) THEN "BWAMapper" ELSE @]
    /\ detectors' = [detectors EXCEPT ![r] = <<>>]
    /\ idx' = [idx EXCEPT ![r] = 1]
    /\ pc' = [pc EXCEPT ![r] = "detectors"]
    /\ UNCHANGED <<args, err, exitStatus, working_dir, subdir, logger,
                   dirs, files, clock>>

\* the configuration path chosen for a detector name
ConfPath(detector, yamlExists) ==
    IF yamlExists THEN <<"config", "detectors", detector, "yaml">>
    ELSE <<"config", "detectors", detector, "txt">>

\* one iteration of the loop over args.variant_detectors.split(',')
LoadDetector(r) ==
    /\ pc[r] = "detectors"
    /\ Running(r)
    /\ idx[r] <= Len(args[r].variant_detectors)
    /\ LET detector == args[r].variant_detectors[idx[r]] IN
       \E yamlExists \in BOOLEAN :
         IF detector = KnownDetector
         THEN IF HasBam(r)
              THEN /\ detectors' = [detectors EXCEPT ![r] =
                         Append(@, [name |-> detector,
                                    conf |-> ConfPath(detector, yamlExists),
                                    working_dir |-> working_dir[r]])]
                   /\ idx' = [idx EXCEPT ![r] = @ + 1]
                   /\ UNCHANGED <<pc, err, exitStatus>>
              ELSE /\ Raise(r, "AttributeError", 1)
                   /\ UNCHANGED <<detectors, idx>>
         ELSE /\ idx' = [idx EXCEPT ![r] = @ + 1]
              /\ UNCHANGED <<detectors, pc, err, exitStatus>>
    /\ UNCHANGED <<args, working_dir, subdir, logger, mapper, dirs, files,
                   clock>>

\* the loop is exhausted: __init__ returns
Constructed(r) ==
    /\ pc[r] = "detectors"
    /\ Running(r)
    /\ idx[r] > Len(args[r].variant_detectors)
    /\ pc' = [pc EXCEPT ![r] = "constructed"]
    /\ UNCHANGED <<args, err, exitStatus, working_dir, subdir, logger, mapper,
                   detectors, idx, dirs, files, clock>>

\* run(): the mapper runs only when args has an attribute bam, which
\* parse_args never sets; the detector, normalisation, classifier and output
\* phases are comments, so nothing is written and run() returns None
Run(r) ==
    /\ pc[r] = "constructed"
    /\ pc' = [pc EXCEPT ![r] = "returned"]
    /\ UNCHANGED <<args, err, exitStatus, working_dir, subdir, logger, mapper,
                   detectors, idx, dirs, files, clock>>

\* sys.exit(app.run()) with None: status 0
SysExit(r) ==
    /\ pc[r] = "returned"
    /\ exitStatus' = [exitStatus EXCEPT ![r] = 0]
    /\ pc' = [pc EXCEPT ![r] = "exited"]
    /\ UNCHANGED <<args, err, working_dir, subdir, logger, mapper, detectors,
                   idx, dirs, files, clock>>

\* a second of wall-clock time passes
Tick ==
    /\ clock < MaxClock
    /\ clock' = clock + 1
    /\ UNCHANGED <<pc, args, err, exitStatus, working_dir, subdir, logger,
                   mapper, detectors, idx, dirs, files>>

Next ==
    \/ \E r \in Runs : ParseArgs(r)
    \/ \E r \in Runs : CreateWorkingDirectories(r)
    \/ \E r \in Runs : IsDir(r)
    \/ \E r \in Runs : MakedirsParents(r)
    \/ \E r \in Runs : MakedirsLeaf(r)
    \/ \E r \in Runs : InitializeLogger(r)
    \/ \E r \in Runs : LogSystemInfo(r)
    \/ \E r \in Runs : LoadMapper(r)
    \/ \E r \in Runs : LoadDetector(r)
    \/ \E r \in Runs : Constructed(r)
    \/ \E r \in Runs : Run(r)
    \/ \E r \in Runs : SysExit(r)
    \/ Tick

Spec == Init /\ [][Next]_vars

\* ---- properties ---------------------------------------------------------

\* create_working_directories has returned normally in run r, whatever
\* happened to the run afterwards (pc stays at the statement that raised)
DirsCreated(r) ==
    pc[r] \in {"dirs", "logger", "sysinfo", "detectors", "constructed",
               "returned", "exited"}

Finished(r) == pc[r] \in {"returned", "exited"}

IsOutputFile(f) == f[Len(f)] # "eve.log"

\* C4: a run in which zero detectors succeed (run() executes none, and the
\* detector list is empty) ends in the NoUsableDetectorOutputsError failure
\* state instead of returning normally.
C4_AllDetectorsFailIsFatal ==
    \A r \in Runs :
        (Finished(r) /\ detectors[r] = <<>>)
            => err[r] = "NoUsableDetectorOutputsError"

\* C5: a detector name that is not a detector identity ends start-up in a
\* fatal error: construction never completes with such a name in the
\* requested list, so the name is never silently dropped.
C5_BadDetectorIdentityIsFatal ==
    \A r \in Runs :
        (\E i \in DOMAIN args[r].variant_detectors :
            args[r].variant_detectors[i] \notin RecognizedDetectors)
        => pc[r] \notin {"constructed", "returned", "exited"}

\* C6: a run reports success (run() returned and the process exited with
\* status 0) only after its output file has been moved into place at the
\* destination.
C6_SuccessOnlyAfterOutputInPlace ==
    \A r \in Runs :
        (pc[r] = "exited" /\ exitStatus[r] = 0)
            => \E f \in files : IsOutputFile(f)

\* C9: working directories are exclusive: two runs never write their
\* intermediate files into the same directory, and two detectors of one
\* run are never given the same directory.
C9_WorkingDirectoriesExclusive ==
    /\ \A r1, r2 \in Runs :
         (r1 # r2 /\ DirsCreated(r1) /\ DirsCreated(r2))
            => working_dir[r1] # working_dir[r2]
    /\ \A r \in Runs : \A i, j \in DOMAIN detectors[r] :
         i # j => detectors[r][i].working_dir # detectors[r][j].working_dir

\* C10: start-up order of EVE.__init__.  A run that ended in parse_args
\* (too many reads, GFF not a file, or any other exit out of it) has
\* computed no working directory, started no subdirectory, initialized no
\* logger and loaded no mapper or detector; and a
\* run that is about to initialize its logger, has initialized it, or has
\* reached the mapper or the detector loop, has both the mapped and the vcf
\* subdirectory of its working directory on disk.
C10_ValidationBeforeSideEffects ==
    \A r \in Runs :
        /\ (err[r] = "IOError" \/ (pc[r] = "start" /\ ~Running(r))) =>
              /\ pc[r] = "start"
              /\ working_dir[r] = NoDir
              /\ subdir[r] = 0
              /\ ~logger[r]
              /\ mapper[r] = None
              /\ detectors[r] = <<>>
        /\ (logger[r] \/ DirsCreated(r) \/ detectors[r] # <<>>
                \/ mapper[r] # None) =>
              /\ working_dir[r] # NoDir
              /\ Append(working_dir[r], "mapped") \in dirs
              /\ Append(working_dir[r], "vcf") \in dirs

\* one run was stopped by validation while the other went through the
\* whole constructor with its logger initialized
C10_Witness ==
    \E r1, r2 \in Runs :
        /\ err[r1] = "IOError"
        /\ exitStatus[r1] = 1
        /\ pc[r2] = "constructed"
        /\ logger[r2]
        /\ Append(working_dir[r2], "vcf") \in dirs

====
